---- MODULE Spec2Model ----
(***************************************************************************)
(* Model of the two Unmanic plugins extract_ass_subtitles_to_files and     *)
(* extract_srt_subtitles_to_files (soultaco83): the extraction oracle      *)
(* (ass_already_extracted / srt_already_extracted), the file-test hook,    *)
(* the stream selection of PluginStreamMapper and the worker hook with its *)
(* two external commands.  Strings are sequences of one-character strings  *)
(* so that lower(), splitext(), str.replace() and glob matching are        *)
(* computed as the Python library computes them.                           *)
(*                                                                         *)
(* Scope: the host passes file_in = original_file_path = the library path  *)
(* (the plugin is the first of the library's flow); file_out lies in the   *)
(* host's cache directory.                                                 *)
(***************************************************************************)
EXTENDS Integers, Sequences, FiniteSets, TLC

\* ------------------------------------------------------------------------
\* Bounds of the model
\* ------------------------------------------------------------------------
MaxStreams == 2          \* longest probed stream list
MaxGen == 1              \* successful replacements of the media file in one behaviour
MaxRaw == 3              \* longest languages_to_extract string of ParseSpec

\* ------------------------------------------------------------------------
\* Python string primitives
\* ------------------------------------------------------------------------
Max(S) == CHOOSE x \in S : \A y \in S : y <= x

\* str.lower() on one character
LowerChar(c) ==
    CASE c = "A" -> "a" [] c = "E" -> "e" [] c = "F" -> "f" [] c = "K" -> "k"
      [] c = "M" -> "m" [] c = "S" -> "s" [] c = "V" -> "v" [] c = "X" -> "x"
      [] OTHER -> c

\* str.lower()
Lower(s) == [i \in 1..Len(s) |-> LowerChar(s[i])]

\* s[i:j] with 1-based inclusive bounds; empty when i > j
Slice(s, i, j) == IF i > j THEN <<>> ELSE SubSeq(s, i, j)

\* str.rfind(c) + 1: the 1-based index of the last c, 0 when absent
RFind(s, c) ==
    IF \E i \in 1..Len(s) : s[i] = c
    THEN Max({i \in 1..Len(s) : s[i] = c})
    ELSE 0

\* s.startswith(p) at 1-based position i
MatchAt(s, p, i) ==
    /\ i + Len(p) - 1 <= Len(s)
    /\ \A k \in 1..Len(p) : s[i + k - 1] = p[k]

\* str.replace(old, new): every non-overlapping occurrence, left to right
RECURSIVE ReplaceFrom(_, _, _, _)
ReplaceFrom(s, old, new, i) ==
    IF i > Len(s) THEN <<>>
    ELSE IF MatchAt(s, old, i)
         THEN new \o ReplaceFrom(s, old, new, i + Len(old))
         ELSE <<s[i]>> \o ReplaceFrom(s, old, new, i + 1)

Replace(s, old, new) == ReplaceFrom(s, old, new, 1)

\* ------------------------------------------------------------------------
\* posixpath
\* ------------------------------------------------------------------------
\* os.path.splitext: the last dot of the last component, leading dots of
\* the component not counted; returns <<root, ext>>
splitext(p) ==
    LET sepIndex == RFind(p, "/")
        dotIndex == RFind(p, ".")
    IN IF /\ dotIndex > sepIndex
          /\ \E k \in (sepIndex + 1)..(dotIndex - 1) : p[k] # "."
       THEN <<Slice(p, 1, dotIndex - 1), Slice(p, dotIndex, Len(p))>>
       ELSE <<p, <<>> >>

\* os.path.basename
basename(p) == Slice(p, RFind(p, "/") + 1, Len(p))

\* str.rstrip('/')
RECURSIVE RStripSlash(_)
RStripSlash(s) ==
    IF Len(s) > 0 /\ s[Len(s)] = "/" THEN RStripSlash(Slice(s, 1, Len(s) - 1))
    ELSE s

\* os.path.dirname
dirname(p) ==
    LET head == Slice(p, 1, RFind(p, "/"))
    IN IF Len(head) > 0 /\ \E k \in 1..Len(head) : head[k] # "/"
       THEN RStripSlash(head)
       ELSE head

\* os.path.join(a, b)
join(a, b) ==
    IF Len(b) > 0 /\ b[1] = "/" THEN b
    ELSE IF Len(a) = 0 \/ a[Len(a)] = "/" THEN a \o b
    ELSE a \o <<"/">> \o b

\* ------------------------------------------------------------------------
\* fnmatch / glob
\* ------------------------------------------------------------------------
\* index of the "]" closing the class opened just before position i of pat,
\* Len(pat) + 1 when the bracket is not closed (fnmatch.translate)
RECURSIVE ScanClose(_, _)
ScanClose(pat, j) ==
    IF j > Len(pat) THEN j
    ELSE IF pat[j] = "]" THEN j
    ELSE ScanClose(pat, j + 1)

ClassEnd(pat, i) ==
    LET j1 == IF i <= Len(pat) /\ pat[i] = "!" THEN i + 1 ELSE i
        j2 == IF j1 <= Len(pat) /\ pat[j1] = "]" THEN j1 + 1 ELSE j1
    IN ScanClose(pat, j2)

\* fnmatch.fnmatchcase(name[n..], pat[i..]): "*" any run, "?" one
\* character, "[seq]" / "[!seq]" one character of (not of) seq, an
\* unclosed "[" literal.  The paths of the model carry no "-" ranges.
RECURSIVE FnMatchFrom(_, _, _, _)
FnMatchFrom(name, n, pat, i) ==
    IF i > Len(pat) THEN n > Len(name)
    ELSE IF pat[i] = "*"
         THEN \E m \in n..(Len(name) + 1) : FnMatchFrom(name, m, pat, i + 1)
    ELSE IF pat[i] = "?"
         THEN n <= Len(name) /\ FnMatchFrom(name, n + 1, pat, i + 1)
    ELSE IF pat[i] = "[" /\ ClassEnd(pat, i + 1) <= Len(pat)
         THEN LET j == ClassEnd(pat, i + 1)
                  neg == pat[i + 1] = "!"
                  stuff == Slice(pat, IF neg THEN i + 2 ELSE i + 1, j - 1)
                  inSet(c) == \E k \in 1..Len(stuff) : stuff[k] = c
              IN /\ n <= Len(name)
                 /\ (inSet(name[n]) # neg)
                 /\ FnMatchFrom(name, n + 1, pat, j + 1)
    ELSE n <= Len(name) /\ name[n] = pat[i] /\ FnMatchFrom(name, n + 1, pat, i + 1)

fnmatch(name, pat) == FnMatchFrom(name, 1, pat, 1)

\* glob.has_magic
has_magic(s) == \E k \in 1..Len(s) : s[k] \in {"*", "?", "["}

\* glob.glob(pattern) over the files of `files`: the directory part is taken
\* literally (the directories of the model carry no pattern characters), the
\* last component is matched with fnmatch; a pattern without magic is an
\* existence test.
glob(files, pattern) ==
    IF ~has_magic(pattern) THEN {f \in files : f = pattern}
    ELSE {f \in files : /\ dirname(f) = dirname(pattern)
                        /\ fnmatch(basename(f), basename(pattern))}

\* ------------------------------------------------------------------------
\* Literals of the program
\* ------------------------------------------------------------------------
S_ass == <<"a", "s", "s">>
S_ssa == <<"s", "s", "a">>
S_srt == <<"s", "r", "t">>
S_subrip == <<"s", "u", "b", "r", "i", "p">>
S_mov_txt == <<"m", "o", "v", "_", "t", "x", "t">>
S_mov_text == <<"m", "o", "v", "_", "t", "e", "x", "t">>
S_h264 == <<"h", "2", "6", "4">>
S_subtitle == <<"s", "u", "b", "t", "i", "t", "l", "e">>
S_video == <<"v", "i", "d", "e", "o">>
S_mkv == <<"m", "k", "v">>
S_dot_mkv == <<".", "m", "k", "v">>
S_temp_mkv == <<"_", "t", "e", "m", "p", ".", "m", "k", "v">>
S_extracted == <<"e", "x", "t", "r", "a", "c", "t", "e", "d">>
S_unmanic == <<"u", "n", "m", "a", "n", "i", "c">>

S_map == <<"-", "m", "a", "p">>
S_copy == <<"c", "o", "p", "y">>
S_y == <<"-", "y">>
S_i == <<"-", "i">>
S_c == <<"-", "c">>
S_0 == <<"0">>
S_map_metadata == <<"-", "m", "a", "p", "_", "m", "e", "t", "a", "d", "a", "t", "a">>
S_metadata == <<"-", "m", "e", "t", "a", "d", "a", "t", "a">>

\* str(stream_index)
Digit(n) ==
    CASE n = 0 -> "0" [] n = 1 -> "1" [] n = 2 -> "2" [] n = 3 -> "3"
      [] n = 4 -> "4" [] OTHER -> "9"

Variants == {"ass", "srt"}

\* the codec lists of test_stream_needs_processing and of the oracle
TargetCodecs(v) ==
    IF v = "ass" THEN {S_ass, S_ssa} ELSE {S_srt, S_mov_txt, S_subrip}

\* extension of the sidecar artifacts of a variant
KindExt(v) == IF v = "ass" THEN S_ass ELSE S_srt

\* ------------------------------------------------------------------------
\* PluginStreamMapper
\* ------------------------------------------------------------------------
IsSpace(c) == c \in {" ", "\t"}

\* re.sub(r'\s', '-', s)
SubSpace(s) == [i \in 1..Len(s) |-> IF IsSpace(s[i]) THEN "-" ELSE s[i]]

\* the split on the hyphen instead of the comma
RECURSIVE SplitHyphen(_, _, _)
SplitHyphen(s, i, cur) ==
    IF i > Len(s) THEN <<cur>>
    ELSE IF s[i] = "-" THEN <<cur>> \o SplitHyphen(s, i + 1, <<>>)
    ELSE SplitHyphen(s, i + 1, Append(cur, s[i]))

\* str.split(','): always at least one token
RECURSIVE SplitComma(_, _, _)
SplitComma(s, i, cur) ==
    IF i > Len(s) THEN <<cur>>
    ELSE IF s[i] = "," THEN <<cur>> \o SplitComma(s, i + 1, <<>>)
    ELSE SplitComma(s, i + 1, Append(cur, s[i]))

\* str.strip()
RECURSIVE Strip(_)
Strip(s) ==
    IF Len(s) > 0 /\ IsSpace(s[1]) THEN Strip(Tail(s))
    ELSE IF Len(s) > 0 /\ IsSpace(s[Len(s)]) THEN Strip(Slice(s, 1, Len(s) - 1))
    ELSE s

\* _get_language_list without the call of lower()
_get_language_list_noLower(raw) ==
    LET tokens == SplitComma(SubSpace(raw), 1, <<>>)
        languages == SelectSeq(tokens, LAMBDA t : t # <<>>)
    IN [i \in 1..Len(languages) |-> Strip(languages[i])]

\* PluginStreamMapper._get_language_list
_get_language_list(raw) ==
    LET tokens == SplitComma(Lower(SubSpace(raw)), 1, <<>>)
        languages == SelectSeq(tokens, LAMBDA t : t # <<>>)
    IN [i \in 1..Len(languages) |-> Strip(languages[i])]

InList(x, list) == \E i \in 1..Len(list) : list[i] = x

\* test_stream_needs_processing without the language test
test_stream_needs_processing_anyLanguage(v, raw, stream_info) ==
    Lower(stream_info.codec_name) \in TargetCodecs(v)

\* PluginStreamMapper.test_stream_needs_processing
test_stream_needs_processing(v, raw, stream_info) ==
    LET codec_name == Lower(stream_info.codec_name)
        languages == _get_language_list(raw)
        language_tag == Lower(stream_info.language)
    IN IF codec_name \notin TargetCodecs(v) THEN FALSE
       ELSE IF Len(languages) = 0 THEN TRUE
       ELSE InList(language_tag, languages)

\* f'0:s:{stream_id}?'
stream_specifier(stream_id) == <<"0", ":", "s", ":", Digit(stream_id), "?">>

\* the 'stream_encoding' list custom_stream_mapping returns to the helper
\* library: '-c:s:{stream_id}', 'copy'
stream_encoding(stream_id) ==
    << <<"-", "c", ":", "s", ":", Digit(stream_id)>>, S_copy >>

\* custom_stream_mapping comparing the language tag as probed, without
\* lower()
custom_stream_mapping_rawTag(raw, stream_info, stream_id) ==
    LET language_tag == stream_info.language
        languages == _get_language_list(raw)
    IN IF Len(languages) > 0 /\ ~InList(language_tag, languages)
       THEN <<>>
       ELSE << [stream_id |-> stream_id, subtitle_tag |-> language_tag,
                stream_mapping |-> <<S_map, stream_specifier(stream_id)>>] >>

\* PluginStreamMapper.custom_stream_mapping: the entries appended to
\* sub_streams by one call (none on the language-skip branch)
custom_stream_mapping(raw, stream_info, stream_id) ==
    LET language_tag == Lower(stream_info.language)
        languages == _get_language_list(raw)
    IN IF Len(languages) > 0 /\ ~InList(language_tag, languages)
       THEN <<>>
       ELSE << [stream_id |-> stream_id, subtitle_tag |-> language_tag,
                stream_mapping |-> <<S_map, stream_specifier(stream_id)>>] >>

\* StreamMapper.streams_need_processing of the helper library: the probed
\* streams in container order, each subtitle stream numbered by the count
\* of subtitle streams before it; a stream accepted by
\* test_stream_needs_processing is handed to custom_stream_mapping.
\* Returns the resulting sub_streams.
RECURSIVE MapStreams(_, _, _, _, _)
MapStreams(v, raw, streams, i, count) ==
    IF i > Len(streams) THEN <<>>
    ELSE IF Lower(streams[i].codec_type) # S_subtitle
         THEN MapStreams(v, raw, streams, i + 1, count)
    ELSE IF test_stream_needs_processing(v, raw, streams[i])
         THEN custom_stream_mapping(raw, streams[i], count)
                  \o MapStreams(v, raw, streams, i + 1, count + 1)
    ELSE MapStreams(v, raw, streams, i + 1, count + 1)

\* streams_need_processing(): some subtitle stream was accepted
streams_need_processing(v, raw, streams) ==
    \E i \in 1..Len(streams) :
        /\ Lower(streams[i].codec_type) = S_subtitle
        /\ test_stream_needs_processing(v, raw, streams[i])

\* ------------------------------------------------------------------------
\* The extraction oracle
\* ------------------------------------------------------------------------
\* the sidecar record of the .unmanic file: no file, a read error, a falsy
\* or a truthy value
RecordStates == {"nofile", "error", "falsy", "truthy"}

\* the stream loop of the oracle
has_target_subtitles(v, streams) ==
    \E i \in 1..Len(streams) :
        /\ streams[i].codec_type = S_subtitle
        /\ Lower(streams[i].codec_name) \in TargetCodecs(v)

\* the glob pattern "{base_path}.*.ass" / "{base_path}.*.srt"
ArtifactPattern(v, p) == splitext(p)[1] \o <<".", "*", ".">> \o KindExt(v)

\* the oracle with the tag test dropped from its last "proceed" branch
already_extracted_noTag(v, regardless, rec, probe_ok, tag_raw, streams, p, files) ==
    IF rec = "truthy" THEN TRUE
    ELSE IF ~probe_ok THEN FALSE
    ELSE LET has_target == has_target_subtitles(v, streams)
             file_extension == Lower(Slice(splitext(p)[2], 2, Len(splitext(p)[2])))
             existing == glob(files, ArtifactPattern(v, p))
         IN IF v = "ass" /\ file_extension # <<>> /\ file_extension # S_mkv
            THEN TRUE
            ELSE IF regardless THEN FALSE
            ELSE IF existing # {} THEN TRUE
            ELSE IF has_target THEN FALSE
            ELSE TRUE

\* the oracle testing the file extension before it probes the file
already_extracted_extFirst(v, regardless, rec, probe_ok, tag_raw, streams, p, files) ==
    LET subs_tag == Lower(tag_raw)
        has_target == has_target_subtitles(v, streams)
        file_extension == Lower(Slice(splitext(p)[2], 2, Len(splitext(p)[2])))
        existing == glob(files, ArtifactPattern(v, p))
    IN IF rec = "truthy" THEN TRUE
       ELSE IF v = "ass" /\ file_extension # <<>> /\ file_extension # S_mkv
       THEN TRUE
       ELSE IF ~probe_ok THEN FALSE
       ELSE IF regardless THEN FALSE
       ELSE IF existing # {} THEN TRUE
       ELSE IF subs_tag # S_extracted /\ has_target THEN FALSE
       ELSE TRUE

\* the oracle whose except branch around directory_info.get returns True
already_extracted_errDone(v, regardless, rec, probe_ok, tag_raw, streams, p, files) ==
    IF rec \in {"truthy", "error"} THEN TRUE
    ELSE IF ~probe_ok THEN FALSE
    ELSE LET subs_tag == Lower(tag_raw)
             has_target == has_target_subtitles(v, streams)
             file_extension == Lower(Slice(splitext(p)[2], 2, Len(splitext(p)[2])))
             existing == glob(files, ArtifactPattern(v, p))
         IN IF v = "ass" /\ file_extension # <<>> /\ file_extension # S_mkv
            THEN TRUE
            ELSE IF regardless THEN FALSE
            ELSE IF existing # {} THEN TRUE
            ELSE IF subs_tag # S_extracted /\ has_target THEN FALSE
            ELSE TRUE

\* the oracle reading extract_regardless before the file extension
already_extracted_regardlessFirst(v, regardless, rec, probe_ok, tag_raw, streams, p, files) ==
    IF rec = "truthy" THEN TRUE
    ELSE IF ~probe_ok THEN FALSE
    ELSE LET subs_tag == Lower(tag_raw)
             has_target == has_target_subtitles(v, streams)
             file_extension == Lower(Slice(splitext(p)[2], 2, Len(splitext(p)[2])))
             existing == glob(files, ArtifactPattern(v, p))
         IN IF regardless THEN FALSE
            ELSE IF v = "ass" /\ file_extension # <<>> /\ file_extension # S_mkv
            THEN TRUE
            ELSE IF existing # {} THEN TRUE
            ELSE IF subs_tag # S_extracted /\ has_target THEN FALSE
            ELSE TRUE

\* ass_already_extracted / srt_already_extracted.  regardless is the
\* setting extract_regardless, rec the sidecar record, probe_ok the result
\* of Probe.file, tag_raw the value of the container tag ASS_SUB / srt_SUB
\* (empty when absent), files the files on disk.
already_extracted(v, regardless, rec, probe_ok, tag_raw, streams, p, files) ==
    IF rec = "truthy" THEN TRUE
    ELSE IF ~probe_ok THEN FALSE
    ELSE LET subs_tag == Lower(tag_raw)
             has_target == has_target_subtitles(v, streams)
             file_extension == Lower(Slice(splitext(p)[2], 2, Len(splitext(p)[2])))
             existing == glob(files, ArtifactPattern(v, p))
         IN IF v = "ass" /\ file_extension # <<>> /\ file_extension # S_mkv
            THEN TRUE
            ELSE IF regardless THEN FALSE
            ELSE IF subs_tag = S_extracted /\ existing # {} THEN TRUE
            ELSE IF existing # {} THEN TRUE
            ELSE IF existing = {} /\ subs_tag # S_extracted /\ has_target THEN FALSE
            ELSE TRUE

\* ------------------------------------------------------------------------
\* Inputs: files, settings, probes
\* ------------------------------------------------------------------------
P_mkv == <<"/", "l", "/", "m", ".", "m", "k", "v">>
P_MKV == <<"/", "l", "/", "m", ".", "M", "K", "V">>
P_mp4 == <<"/", "l", "/", "m", ".", "m", "p", "4">>
P_noext == <<"/", "l", "/", "m">>
P_bracket == <<"/", "l", "/", "[", "m", "]", ".", "m", "k", "v">>

Paths == {P_mkv, P_MKV, P_mp4, P_noext, P_bracket}

\* values of the setting languages_to_extract: "", "e", "F, x"
LangRaws == { <<>>, <<"e">>, <<"F", ",", " ", "x">> }

\* values of the container tag ASS_SUB / srt_SUB: absent, "extracted",
\* "Extracted"
TagValues == { <<>>, S_extracted, <<"E">> \o Tail(S_extracted) }

Stream(type, codec, lang) ==
    [codec_type |-> type, codec_name |-> codec, language |-> lang]

\* the stream descriptors a probe of the model can return: a video stream,
\* two target streams of the variant, one with an upper-case language tag
\* and one without language tag, and a subtitle stream whose codec is not
\* in the variant's codec list
StreamKinds(v) ==
    IF v = "ass"
    THEN { Stream(S_video, S_h264, <<>>),
           Stream(S_subtitle, S_ssa, <<"F">>),
           Stream(S_subtitle, S_ass, <<>>),
           Stream(S_subtitle, S_srt, <<"e">>) }
    ELSE { Stream(S_video, S_h264, <<>>),
           Stream(S_subtitle, S_subrip, <<"F">>),
           Stream(S_subtitle, S_srt, <<>>),
           Stream(S_subtitle, S_mov_text, <<"e">>) }

StreamLists(v) == UNION { [1..n -> StreamKinds(v)] : n \in 0..MaxStreams }

\* the host's file_out: a working file in the cache directory /c
file_out(p) == <<"/", "c", "/", "w">> \o splitext(p)[2]

\* a subtitle file that lies next to the media file before any run:
\* {base}.e.ass / {base}.e.srt
ForeignArtifact(v, p) == splitext(p)[1] \o <<".", "e", ".">> \o KindExt(v)

\* ------------------------------------------------------------------------
\* State
\* ------------------------------------------------------------------------
VARIABLES
    variant,                \* which of the two plugins runs
    extract_regardless,     \* setting extract_regardless
    languages_to_extract,   \* setting languages_to_extract (raw string)
    path,                   \* the media file: path = file_in = original_file_path
    record,                 \* sidecar record of the file in .unmanic
    probe_ok,               \* Probe.file(path) succeeds
    streams,                \* probed streams of the file
    media,                  \* content of the media file: container tag, generation
    disk,                   \* other files on disk: sidecar artifacts, temporaries
    pc,                     \* position of the worker hook
    data,                   \* the host's data dictionary
    sub_streams,            \* mapper.sub_streams of the current worker run
    outputs,                \* output paths of the extraction command
    cmds,                   \* external commands started by the current worker run
    extract_exit,           \* exit of the extraction command: rc, stderr, files written
    temp_output,            \* temp_output of the current worker run
    meta_rc,                \* exit of the metadata command, -1 before it exits
    media0,                 \* content of the media file when the worker run began
    result,                 \* how the last worker run ended
    host_cmds,              \* commands the host ran from the returned exec_command
    languages               \* lists returned by _get_language_list (ParseSpec)

vars == <<variant, extract_regardless, languages_to_extract, path, record,
          probe_ok, streams, media, disk, pc, data, sub_streams, outputs,
          cmds, extract_exit, temp_output, meta_rc, media0, result,
          host_cmds, languages>>

\* what neither hook changes: the settings, the file's place and probe,
\* and the lists recorded by ParseSpec
env == <<variant, extract_regardless, languages_to_extract, path, record,
         probe_ok, streams, languages>>

NoLanguages == [calls |-> 0, first |-> <<>>, second |-> <<>>]

NoExit == [rc |-> -1, stderr |-> {}, written |-> {}]

\* the plain library file: /l/m.mkv, untagged, without a .unmanic file.
\* Stream lists longer than one stream are explored on the plain file, the
\* file states (path, record, tag) on lists of at most one stream.
PlainFile == path = P_mkv /\ record = "nofile" /\ media.tag = <<>>

Init ==
    /\ variant \in Variants
    /\ extract_regardless \in BOOLEAN
    /\ languages_to_extract \in LangRaws
    /\ path \in Paths
    /\ record \in RecordStates
    /\ probe_ok \in BOOLEAN
    /\ streams \in StreamLists(variant)
    /\ media \in [tag : TagValues, gen : {0}]
    /\ ~probe_ok => (streams = <<>> /\ media.tag = <<>>)
    /\ Len(streams) > 1 => PlainFile
    /\ disk \in SUBSET {ForeignArtifact(variant, path)}
    /\ pc = "idle"
    /\ data = [add_file_to_pending_tasks |-> FALSE, exec_command |-> "unset"]
    /\ sub_streams = <<>>
    /\ outputs = <<>>
    /\ cmds = <<>>
    /\ extract_exit = NoExit
    /\ temp_output = <<>>
    /\ meta_rc = -1
    /\ media0 = media
    /\ result = "none"
    /\ host_cmds = <<>>
    /\ languages = NoLanguages

\* the oracle on the current state of the file
Oracle ==
    already_extracted(variant, extract_regardless, record, probe_ok,
                      media.tag, streams, path, disk)

\* ------------------------------------------------------------------------
\* on_library_management_file_test
\* ------------------------------------------------------------------------
\* the worker hook has returned an ffmpeg command in exec_command that the
\* host has not run yet; the host runs it before it calls a hook again
HostPending ==
    /\ pc = "idle"
    /\ result \in {"fatal", "meta_failed", "replace_failed", "completed"}
    /\ data.exec_command = "ffmpeg"
    /\ host_cmds = <<>>

\* The host hands in a fresh data dictionary; the hook sets
\* add_file_to_pending_tasks when the oracle reports not-extracted.
FileTest ==
    /\ pc = "idle"
    /\ ~HostPending
    /\ data' = [data EXCEPT !.add_file_to_pending_tasks = ~Oracle]
    /\ UNCHANGED <<env, host_cmds, media, disk, pc, sub_streams, outputs, cmds,
                   extract_exit, temp_output, meta_rc, media0, result>>

\* ------------------------------------------------------------------------
\* on_worker_process
\* ------------------------------------------------------------------------
\* the file name built from the subtitle tag alone, without the stream index
get_unique_filename_tagOnly(v, base_path, subtitle_tag, stream_index) ==
    base_path \o <<".">> \o S_unmanic \o <<".">> \o subtitle_tag
              \o <<".">> \o KindExt(v)

\* get_unique_ass_filename / get_unique_srt_filename
get_unique_filename(v, base_path, subtitle_tag, stream_index) ==
    base_path \o <<".">> \o S_unmanic \o <<".">> \o subtitle_tag
              \o <<".", Digit(stream_index), ".">> \o KindExt(v)

\* the output paths added by the loop over mapper.sub_streams
OutputPaths(v, p, subs) ==
    [i \in 1..Len(subs) |->
        get_unique_filename(v, splitext(p)[1], subs[i].subtitle_tag,
                            subs[i].stream_id)]

\* temp_output of the metadata step: the ASS plugin builds it in the
\* directory of file_out, the SRT plugin with abspath.replace
TempOutput(v, abspath, fout) ==
    IF v = "ass"
    THEN join(dirname(fout), splitext(basename(abspath))[1] \o S_temp_mkv)
    ELSE Replace(abspath, S_dot_mkv, S_temp_mkv)

\* the option lists the helper library's StreamMapper holds after the
\* selection pass.  The lists returned by custom_stream_mapping go to the
\* library's own stream_mapping / stream_encoding lists, the later lots of
\* arguments that the plugin's get_ffmpeg_args leaves out.
generic_options == << <<"-", "h", "i", "d", "e", "_", "b", "a", "n", "n", "e", "r">> >>
main_options == <<>>
advanced_options == << <<"-", "s", "t", "r", "i", "c", "t">>, <<"-", "2">> >>

\* PluginStreamMapper.get_ffmpeg_args: generic options, input file, main
\* options, advanced options
get_ffmpeg_args(input_file) ==
    generic_options \o <<S_i, input_file>> \o main_options \o advanced_options

\* the loop over mapper.sub_streams: stream_mapping, "-y", output path
RECURSIVE ExtractArgs(_, _, _)
ExtractArgs(subs, outs, k) ==
    IF k > Len(subs) THEN <<>>
    ELSE subs[k].stream_mapping \o <<S_y, outs[k]>> \o ExtractArgs(subs, outs, k + 1)

\* 'ASS_SUB=extracted' / 'srt_SUB=extracted'
TagAssignment(v) ==
    (IF v = "ass" THEN <<"A", "S", "S">> ELSE S_srt)
        \o <<"_", "S", "U", "B", "=">> \o S_extracted

\* metadata_command without its leading 'ffmpeg'
MetadataArgs(v, abspath, temp) ==
    <<S_i, abspath, S_map_metadata, S_0, S_metadata, TagAssignment(v),
      S_c, S_copy, S_y, temp>>

\* an external command: its input and output files and its arguments
\* after 'ffmpeg'
Cmd(kind, input, output, args) ==
    [kind |-> kind, input |-> input, output |-> output, args |-> args]

Range(seq) == {seq[i] : i \in 1..Len(seq)}

\* the two phrases the worker looks for in the stderr of the extraction
StreamMapPhrase == "Stream map '0:s:"
NoStreamsPhrase == "matches no streams"

\* the except branch with "or" between the two substring tests
IsFatal_or(rc, stderr) ==
    /\ rc # 0
    /\ ~(StreamMapPhrase \in stderr \/ NoStreamsPhrase \in stderr)

\* the except branch returning on every non-zero exit
IsFatal_any(rc, stderr) == rc # 0

\* the except branch after the extraction command: TRUE when the worker
\* returns, FALSE when it goes on to the metadata step
IsFatal(rc, stderr) ==
    /\ rc # 0
    /\ ~(StreamMapPhrase \in stderr /\ NoStreamsPhrase \in stderr)

\* the data dictionary of a worker run: the host has taken the task from
\* the pending list and hands a fresh dictionary to the hook
WorkerData(exec_command) ==
    [add_file_to_pending_tasks |-> FALSE, exec_command |-> exec_command]

\* the hook returning on "already extracted" with the default exec_command
\* [] left in place
WorkerStart_keepsDefault ==
    /\ pc = "idle"
    /\ ~HostPending
    /\ media0' = media
    /\ extract_exit' = NoExit
    /\ temp_output' = <<>>
    /\ meta_rc' = -1
    /\ IF ~probe_ok
       THEN /\ data' = WorkerData("empty")
            /\ result' = "not_video"
            /\ sub_streams' = <<>> /\ outputs' = <<>> /\ cmds' = <<>>
            /\ pc' = "idle"
       ELSE IF Oracle
       THEN /\ data' = WorkerData("empty")
            /\ result' = "already_done"
            /\ sub_streams' = <<>> /\ outputs' = <<>> /\ cmds' = <<>>
            /\ pc' = "idle"
       ELSE IF streams_need_processing(variant, languages_to_extract, streams)
       THEN LET subs == MapStreams(variant, languages_to_extract, streams, 1, 0)
                outs == OutputPaths(variant, path, subs)
            IN /\ sub_streams' = subs
               /\ outputs' = outs
               /\ data' = WorkerData("ffmpeg")
               /\ cmds' = << Cmd("extract", path, outs,
                                 get_ffmpeg_args(path) \o ExtractArgs(subs, outs, 1)) >>
               /\ result' = "running"
               /\ pc' = "extract"
       ELSE /\ data' = WorkerData("empty")
            /\ result' = "not_needed"
            /\ sub_streams' = <<>> /\ outputs' = <<>> /\ cmds' = <<>>
            /\ pc' = "idle"
    /\ host_cmds' = <<>>
    /\ UNCHANGED <<env, media, disk>>

\* The hook from its entry to the start of the extraction command, or to
\* its return when no command is run.
WorkerStart ==
    /\ pc = "idle"
    /\ ~HostPending
    /\ media0' = media
    /\ extract_exit' = NoExit
    /\ temp_output' = <<>>
    /\ meta_rc' = -1
    /\ IF ~probe_ok
       THEN /\ data' = WorkerData("empty")
            /\ result' = "not_video"
            /\ sub_streams' = <<>> /\ outputs' = <<>> /\ cmds' = <<>>
            /\ pc' = "idle"
       ELSE IF Oracle
       THEN /\ data' = WorkerData("none")
            /\ result' = "already_done"
            /\ sub_streams' = <<>> /\ outputs' = <<>> /\ cmds' = <<>>
            /\ pc' = "idle"
       ELSE IF streams_need_processing(variant, languages_to_extract, streams)
       THEN LET subs == MapStreams(variant, languages_to_extract, streams, 1, 0)
                outs == OutputPaths(variant, path, subs)
            IN /\ sub_streams' = subs
               /\ outputs' = outs
               /\ data' = WorkerData("ffmpeg")
               /\ cmds' = << Cmd("extract", path, outs,
                                 get_ffmpeg_args(path) \o ExtractArgs(subs, outs, 1)) >>
               /\ result' = "running"
               /\ pc' = "extract"
       ELSE /\ data' = WorkerData("empty")
            /\ result' = "not_needed"
            /\ sub_streams' = <<>> /\ outputs' = <<>> /\ cmds' = <<>>
            /\ pc' = "idle"
    /\ host_cmds' = <<>>
    /\ UNCHANGED <<env, media, disk>>

\* The extraction command exits with rc and stderr after writing the files
\* of written; the worker classifies the exit and either returns or starts
\* the metadata command.  A zero exit has written every output.
ExtractExit(rc, stderr, written) ==
    /\ pc = "extract"
    /\ rc = 0 => (stderr = {} /\ written = Range(outputs))
    /\ disk' = disk \cup written
    /\ extract_exit' = [rc |-> rc, stderr |-> stderr, written |-> written]
    /\ IF IsFatal(rc, stderr)
       THEN /\ pc' = "idle"
            /\ result' = "fatal"
            /\ UNCHANGED <<cmds, temp_output>>
       ELSE /\ temp_output' = TempOutput(variant, path, file_out(path))
            /\ cmds' = Append(cmds, Cmd("metadata", path, <<temp_output'>>,
                                        MetadataArgs(variant, path, temp_output')))
            /\ pc' = "meta"
            /\ UNCHANGED result
    /\ UNCHANGED <<env, host_cmds, media, data, sub_streams, outputs, meta_rc, media0>>

\* the metadata step calling subprocess.run without check=True: the replace
\* follows a failed command too
MetaExit_unchecked(rc, wrote, stderr) ==
    /\ pc = "meta"
    /\ temp_output = path => (rc # 0 /\ ~wrote)
    /\ rc = 0 => wrote
    /\ disk' = IF wrote THEN disk \cup {temp_output} ELSE disk
    /\ meta_rc' = rc
    /\ pc' = "replace"
    /\ UNCHANGED <<env, host_cmds, media, data, sub_streams, outputs, cmds,
                   extract_exit, temp_output, media0, result>>

\* The metadata command exits.  ffmpeg refuses an output path equal to its
\* input and exits non-zero without writing; a zero exit has written
\* temp_output; a failing run may leave a partial temp_output behind.
\* The handler of CalledProcessError decodes the captured stderr bytes as
\* UTF-8 when there are any: bytes that are not UTF-8 make the decode raise
\* UnicodeDecodeError inside the handler, which leaves the hook.
MetaExit(rc, wrote, stderr) ==
    /\ pc = "meta"
    /\ temp_output = path => (rc # 0 /\ ~wrote)
    /\ rc = 0 => wrote
    /\ disk' = IF wrote THEN disk \cup {temp_output} ELSE disk
    /\ meta_rc' = rc
    /\ IF rc = 0
       THEN pc' = "replace" /\ UNCHANGED result
       ELSE IF stderr = "not_utf8"
       THEN pc' = "idle" /\ result' = "raised"
       ELSE pc' = "idle" /\ result' = "meta_failed"
    /\ UNCHANGED <<env, host_cmds, media, data, sub_streams, outputs, cmds,
                   extract_exit, temp_output, media0>>

\* shutil.move / os.replace of temp_output onto the media file: on success
\* the media file is the tagged copy, on OSError nothing is changed.  The
\* replace succeeds at most MaxGen times in one behaviour.
ReplaceStep(ok) ==
    /\ pc = "replace"
    /\ ok => media.gen < MaxGen
    /\ IF ok
       THEN /\ media' = [tag |-> S_extracted, gen |-> media.gen + 1]
            /\ disk' = disk \ {temp_output}
            /\ result' = "completed"
       ELSE /\ result' = "replace_failed"
            /\ UNCHANGED <<media, disk>>
    /\ pc' = "idle"
    /\ UNCHANGED <<env, host_cmds, data, sub_streams, outputs, cmds, extract_exit,
                   temp_output, meta_rc, media0>>

\* The worker process is killed while a command runs or before the
\* replace; files the running command had written stay on disk.
Crash(left) ==
    /\ pc \in {"extract", "meta", "replace"}
    /\ left \subseteq (IF pc = "extract" THEN Range(outputs)
                       ELSE IF pc = "meta" /\ temp_output # path THEN {temp_output}
                       ELSE {})
    /\ disk' = disk \cup left
    /\ pc' = "idle"
    /\ result' = "crashed"
    /\ UNCHANGED <<env, host_cmds, media, data, sub_streams, outputs, cmds,
                   extract_exit, temp_output, meta_rc, media0>>

\* The hook has returned data to the host with exec_command holding the
\* ffmpeg command ("A command that Unmanic should execute"): the host runs
\* that command, the extraction command the hook has already run itself,
\* once; the run writes the output files of written.
HostExec(written) ==
    /\ HostPending
    /\ host_cmds' = << cmds[1] >>
    /\ disk' = disk \cup written
    /\ UNCHANGED <<env, media, pc, data, sub_streams, outputs, cmds,
                   extract_exit, temp_output, meta_rc, media0, result>>

StderrTexts == SUBSET {StreamMapPhrase, NoStreamsPhrase}

\* the stderr bytes captured from the metadata command: none, UTF-8 text,
\* or bytes that are not UTF-8 (ffmpeg echoes file names and container
\* metadata as they are stored)
MetaStderrs == {"empty", "utf8", "not_utf8"}

Next ==
    \/ FileTest
    \/ WorkerStart
    \/ \E rc \in {0, 1}, stderr \in StderrTexts, written \in SUBSET Range(outputs) :
          ExtractExit(rc, stderr, written)
    \/ \E rc \in {0, 1}, wrote \in BOOLEAN, stderr \in MetaStderrs :
          MetaExit(rc, wrote, stderr)
    \/ \E ok \in BOOLEAN : ReplaceStep(ok)
    \/ \E left \in SUBSET (Range(outputs) \cup {temp_output}) : Crash(left)
    \/ \E written \in {{}, Range(outputs)} : HostExec(written)

Spec == Init /\ [][Next]_vars

\* Repeated passes over the unchanged plain library file (probeable, no
\* sidecar record, no tag, no artifact yet) with extract_regardless false, in which the extraction command never fails
\* fatally, leaves at least one artifact whenever it runs, and the worker
\* is never killed.  The host re-invokes the hooks on every pass and every
\* started command exits: weak fairness of the pass.
PassInit == Init /\ ~extract_regardless /\ probe_ok /\ PlainFile /\ disk = {}

PassNext ==
    \/ FileTest
    \/ WorkerStart
    \/ \E rc \in {0, 1}, stderr \in StderrTexts, written \in SUBSET Range(outputs) :
          /\ ~IsFatal(rc, stderr)
          /\ written # {}
          /\ ExtractExit(rc, stderr, written)
    \/ \E rc \in {0, 1}, wrote \in BOOLEAN, stderr \in MetaStderrs :
          MetaExit(rc, wrote, stderr)
    \/ \E ok \in BOOLEAN : ReplaceStep(ok)
    \/ \E written \in {{}, Range(outputs)} : HostExec(written)

PassSpec == PassInit /\ [][PassNext]_vars /\ WF_vars(PassNext)

\* ------------------------------------------------------------------------
\* The language list as a function of the setting
\* ------------------------------------------------------------------------
\* characters of a languages_to_extract string: a lower-case and an
\* upper-case letter, the comma, a blank and a hyphen
LangChars == {"e", "F", ",", " ", "-"}

RawStrings == UNION { [1..n -> LangChars] : n \in 0..MaxRaw }

\* ','.join(languages)
RECURSIVE JoinComma(_)
JoinComma(list) ==
    IF Len(list) = 0 THEN <<>>
    ELSE IF Len(list) = 1 THEN list[1]
    ELSE list[1] \o <<",">> \o JoinComma(Tail(list))

ParseInit ==
    /\ variant \in Variants
    /\ extract_regardless = FALSE
    /\ languages_to_extract \in RawStrings
    /\ path = P_mkv
    /\ record = "nofile"
    /\ probe_ok = TRUE
    /\ streams = <<>>
    /\ media = [tag |-> <<>>, gen |-> 0]
    /\ disk = {}
    /\ pc = "idle"
    /\ data = [add_file_to_pending_tasks |-> FALSE, exec_command |-> "unset"]
    /\ sub_streams = <<>>
    /\ outputs = <<>>
    /\ cmds = <<>>
    /\ extract_exit = NoExit
    /\ temp_output = <<>>
    /\ meta_rc = -1
    /\ media0 = media
    /\ result = "none"
    /\ host_cmds = <<>>
    /\ languages = NoLanguages

\* _get_language_list on the setting
GetLanguageList ==
    /\ languages.calls = 0
    /\ languages' = [languages EXCEPT
                        !.calls = 1,
                        !.first = _get_language_list(languages_to_extract)]
    /\ UNCHANGED <<variant, extract_regardless, languages_to_extract, path,
                   record, probe_ok, streams, media, disk, pc, data,
                   sub_streams, outputs, cmds, extract_exit, temp_output,
                   meta_rc, media0, result, host_cmds>>

\* _get_language_list on a setting that holds the comma-joined list of the
\* first call
GetLanguageListAgain ==
    /\ languages.calls = 1
    /\ languages' = [languages EXCEPT
                        !.calls = 2,
                        !.second = _get_language_list(JoinComma(languages.first))]
    /\ UNCHANGED <<variant, extract_regardless, languages_to_extract, path,
                   record, probe_ok, streams, media, disk, pc, data,
                   sub_streams, outputs, cmds, extract_exit, temp_output,
                   meta_rc, media0, result, host_cmds>>

ParseNext == GetLanguageList \/ GetLanguageListAgain

ParseSpec == ParseInit /\ [][ParseNext]_vars

\* ------------------------------------------------------------------------
\* Properties
\* ------------------------------------------------------------------------
\* the sidecar artifacts the oracle's glob finds for the file
ExistingArtifacts == glob(disk, ArtifactPattern(variant, path))

\* the files on disk that an extraction command of this file has written
ProducedOnDisk ==
    disk \ {ForeignArtifact(variant, path),
            TempOutput(variant, path, file_out(path))}

\* the codecs each kind is documented to extract
DocumentedCodecs(v) ==
    IF v = "ass" THEN {S_ass, S_ssa} ELSE {S_srt, S_subrip, S_mov_text}

HasDocumentedTarget ==
    \E i \in 1..Len(streams) :
        /\ streams[i].codec_type = S_subtitle
        /\ Lower(streams[i].codec_name) \in DocumentedCodecs(variant)

FileExtension == Lower(Slice(splitext(path)[2], 2, Len(splitext(path)[2])))

BenignText(stderr) == {StreamMapPhrase, NoStreamsPhrase} \subseteq stderr

MetadataStarted == \E i \in 1..Len(cmds) : cmds[i].kind = "metadata"

\* C1: with extract_regardless true and a successful probe the oracle
\* reports not-extracted in every file state.
C1_RegardlessAlwaysNotDone ==
    (extract_regardless /\ probe_ok) => ~Oracle

\* C2: with extract_regardless false, a truthy sidecar record or a probed
\* tag equal to "extracted" (lower-cased) makes the oracle report
\* already-extracted, whatever artifacts and streams the file has.
C2_EitherSourceMeansDone ==
    (/\ ~extract_regardless
     /\ \/ record = "truthy"
        \/ probe_ok /\ Lower(media.tag) = S_extracted)
    => Oracle

\* C2 witness: a worker run returned "already done" on a tagged file with
\* target streams, without sidecar record and without artifacts.
C2_Witness ==
    /\ ~extract_regardless
    /\ record # "truthy"
    /\ probe_ok
    /\ Lower(media.tag) = S_extracted
    /\ ExistingArtifacts = {}
    /\ has_target_subtitles(variant, streams)
    /\ result = "already_done"
    /\ data.exec_command = "none"

\* C3: when a matching sidecar artifact is on disk and extract_regardless
\* is false, the oracle reports already-extracted whatever the tag, the
\* record and the probe result are, the file-test hook does not add the
\* file to the pending tasks and the worker hook starts no command.
C3_ArtifactShortCircuits ==
    [][ (pc = "idle" /\ ~extract_regardless /\ ExistingArtifacts # {})
        => /\ Oracle
           /\ FileTest => ~data'.add_file_to_pending_tasks
           /\ WorkerStart => cmds' = <<>> ]_vars

\* C4: with extract_regardless false and a successful probe, the oracle
\* reports not-extracted exactly when there is no truthy record, no
\* matching artifact, the tag is not "extracted", some subtitle stream has
\* a codec of the kind's codec set and (ASS variant) the extension is
\* empty or "mkv".
C4_NotDoneIff ==
    (~extract_regardless /\ probe_ok)
    => (~Oracle <=> /\ record # "truthy"
                    /\ ExistingArtifacts = {}
                    /\ Lower(media.tag) # S_extracted
                    /\ HasDocumentedTarget
                    /\ variant = "ass" => FileExtension \in {<<>>, S_mkv})

\* C5: repeated passes with extract_regardless false, in which the
\* extraction never fails fatally, reach a state from which the oracle
\* reports already-extracted for good: the file test no longer requests
\* processing and the worker returns without side effects.
C5_PassesConverge == <>[]Oracle

\* C6: once an extraction has written a sidecar artifact and the worker has
\* returned, the oracle reports already-extracted (extract_regardless
\* false) while the artifact is on disk, whether or not the tag was written.
C6_ArtifactKeepsDone ==
    (pc = "idle" /\ ~extract_regardless /\ ProducedOnDisk # {}) => Oracle

\* C7: after a non-zero exit of the extraction whose stderr does not hold
\* both mismatch phrases, the worker has returned, has started no metadata
\* command and has left the media file as it was.
C7_FatalExitStops ==
    (extract_exit.rc > 0 /\ ~BenignText(extract_exit.stderr))
    => (pc = "idle" /\ result = "fatal" /\ ~MetadataStarted /\ media = media0)

\* C7 witness: the extraction failed with only one of the two phrases.
C7_Witness ==
    /\ extract_exit.rc > 0
    /\ extract_exit.stderr = {StreamMapPhrase}
    /\ result = "fatal"
    /\ Len(cmds) = 1

\* C8: after a non-zero exit whose stderr holds both mismatch phrases the
\* run is not fatal: the metadata command is started as after a zero exit.
C8_MismatchContinues ==
    (extract_exit.rc > 0 /\ BenignText(extract_exit.stderr))
    => /\ result # "fatal"
       /\ Len(cmds) = 2
       /\ cmds[2] = Cmd("metadata", path, <<temp_output>>,
                        MetadataArgs(variant, path, temp_output))
       /\ temp_output = TempOutput(variant, path, file_out(path))

\* C8 witness: a run with a stream-mapping mismatch went on to tag and
\* replace the media file.
C8_Witness ==
    /\ extract_exit.rc > 0
    /\ BenignText(extract_exit.stderr)
    /\ result = "completed"
    /\ media.tag = S_extracted
    /\ media # media0

\* C9: in a worker run the media file changes only by the replace that
\* follows a zero exit of the metadata command; after a failed metadata
\* command, or a kill before the replace, it is what it was.
C9_ReplaceOnlyAfterSuccess ==
    /\ media # media0 => (meta_rc = 0 /\ result = "completed")
    /\ result \in {"meta_failed", "crashed"} => media = media0
    /\ meta_rc > 0 => media = media0

\* C9 witness: the worker was killed after the metadata command had
\* written the temporary file and before the replace.
C9_Witness ==
    /\ result = "crashed"
    /\ meta_rc = 0
    /\ temp_output \in disk
    /\ media = media0

\* C10: the metadata command of both variants writes to a path in the
\* directory of file_out.
C10_TempInCacheDir ==
    \A i \in 1..Len(cmds) :
        cmds[i].kind = "metadata"
        => dirname(cmds[i].output[1]) = dirname(file_out(path))

\* C11: when the metadata command has exited non-zero, or the replace has
\* raised OSError, the failure is absorbed: the hook has returned normally
\* with the command descriptor it returns after a successful tag write, no
\* exception has left the hook, and the sidecar artifacts written by the
\* extraction are still on disk.
C11_MetadataFailureAbsorbed ==
    ((pc = "idle" /\ meta_rc > 0) \/ result = "replace_failed")
    => /\ result \in {"meta_failed", "replace_failed"}
       /\ data.exec_command = "ffmpeg"
       /\ extract_exit.written \subseteq disk

\* C12: when the file cannot be probed as video there is nothing to do: the
\* file-test hook does not add the file to the pending tasks and the
\* worker hook starts no external command.
C12_UnprobeableNothingToDo ==
    [][ (pc = "idle" /\ ~probe_ok)
        => /\ FileTest => ~data'.add_file_to_pending_tasks
           /\ WorkerStart => (cmds' = <<>> /\ pc' = "idle") ]_vars

\* C13: in the ASS/SSA variant, with no truthy sidecar record and a failed
\* probe, the oracle reports not-extracted whatever the file extension,
\* extract_regardless and the sidecar artifacts are.
C13_AssProbeFailureNotDone ==
    (variant = "ass" /\ record # "truthy" /\ ~probe_ok) => ~Oracle

\* C13 witness: the file test has queued an unprobeable .mp4 file of the
\* ASS variant with a subtitle file next to it.
C13_Witness ==
    /\ variant = "ass"
    /\ record # "truthy"
    /\ ~probe_ok
    /\ path = P_mp4
    /\ ~extract_regardless
    /\ disk # {}
    /\ data.add_file_to_pending_tasks

QualifyingPositions ==
    { i \in 1..Len(streams) :
        /\ Lower(streams[i].codec_type) = S_subtitle
        /\ Lower(streams[i].codec_name) \in DocumentedCodecs(variant)
        /\ \/ _get_language_list(languages_to_extract) = <<>>
           \/ InList(Lower(streams[i].language),
                     _get_language_list(languages_to_extract)) }

\* the k-th qualifying stream in container order
QualifyingAt(k) ==
    CHOOSE i \in QualifyingPositions :
        Cardinality({j \in QualifyingPositions : j < i}) = k - 1

\* the number of subtitle streams before position i: the N of 0:s:N
SubtitleIndex(i) ==
    Cardinality({j \in 1..(i - 1) : Lower(streams[j].codec_type) = S_subtitle})

\* the worker run got as far as the mapper's selection pass
SelectionDone == result \notin {"none", "not_video", "already_done"}

\* C15: after a selection pass sub_streams holds exactly the qualifying
\* streams, one entry each, in container order: entry k names the k-th
\* qualifying stream by its subtitle index and lower-cased language tag.
C15_SubStreamsAreTheTargets ==
    SelectionDone
    => /\ Len(sub_streams) = Cardinality(QualifyingPositions)
       /\ \A k \in 1..Len(sub_streams) :
            /\ sub_streams[k].stream_id = SubtitleIndex(QualifyingAt(k))
            /\ sub_streams[k].subtitle_tag = Lower(streams[QualifyingAt(k)].language)

\* C16: the extraction command of a worker run has one output path per
\* selected target, of the form {base}.unmanic.{language_tag}.{index}.{ext},
\* and no two of its output paths are equal, also when targets share a
\* language tag or have none.
C16_OutputPathsDistinct ==
    Len(cmds) > 0
    => /\ Len(outputs) = Len(sub_streams)
       /\ cmds[1].output = outputs
       /\ \A k \in 1..Len(outputs) :
            outputs[k] = splitext(path)[1] \o <<".">> \o S_unmanic \o <<".">>
                           \o sub_streams[k].subtitle_tag
                           \o <<".", Digit(sub_streams[k].stream_id), ".">>
                           \o KindExt(variant)
       /\ \A j, k \in 1..Len(outputs) : j # k => outputs[j] # outputs[k]

\* C16 witness: two targets without language tag were extracted to two
\* different files, both on disk after a zero exit.
C16_Witness ==
    /\ Len(outputs) = 2
    /\ sub_streams[1].subtitle_tag = <<>>
    /\ sub_streams[2].subtitle_tag = <<>>
    /\ extract_exit.rc = 0
    /\ Cardinality(Range(outputs) \cap disk) = 2

\* C17: when no stream of the file qualifies (no subtitle stream, none with
\* a target codec, or none matching a non-empty filter), a worker run has
\* started neither the extraction nor the metadata command, has returned,
\* and has handed back a command descriptor that holds no command ([] or
\* None).
C17_NothingQualifiesNoCommand ==
    (result # "none" /\ QualifyingPositions = {})
    => /\ cmds = <<>>
       /\ pc = "idle"
       /\ data.exec_command \in {"empty", "none"}
       /\ media = media0

\* C17 witness: a worker run on a file whose only target stream is
\* excluded by the language filter ended "not needed" with exec_command [].
C17_Witness ==
    /\ _get_language_list(languages_to_extract) # <<>>
    /\ has_target_subtitles(variant, streams)
    /\ QualifyingPositions = {}
    /\ result = "not_needed"
    /\ data.exec_command = "empty"
    /\ cmds = <<>>

\* C18: in the SRT variant a subtitle stream with codec_name "mov_text" is
\* a target: it makes the oracle's has_target_subtitles true and it is
\* accepted by test_stream_needs_processing when the language filter lets
\* it through, like "srt" and "subrip" streams.
C18_MovTextIsTarget ==
    \A i \in 1..Len(streams) :
        (/\ variant = "srt"
         /\ streams[i].codec_type = S_subtitle
         /\ Lower(streams[i].codec_name) = S_mov_text)
        => /\ has_target_subtitles(variant, streams)
           /\ _get_language_list(languages_to_extract) = <<>>
              => test_stream_needs_processing(variant, languages_to_extract,
                                              streams[i])

\* C19: _get_language_list is idempotent: the list parsed from the
\* comma-joined output of a first parse holds the same set of codes as the
\* first parse.
C19_ParseIdempotent ==
    languages.calls = 2 => Range(languages.second) = Range(languages.first)

\* C19 witness: a setting with an upper-case letter and a blank was parsed
\* to two codes and parsed again from the joined list.
C19_Witness ==
    /\ languages.calls = 2
    /\ languages_to_extract = <<"F", ",", " ">>
    /\ languages.first = << <<"f">>, <<"-">> >>
    /\ languages.second = languages.first

\* the arguments of the extraction command of the current worker run
ExtractionArgs == cmds[1].args

\* the place of "-y" before the output path of target k
OutputAt(k) ==
    CHOOSE i \in 1..(Len(ExtractionArgs) - 1) :
        ExtractionArgs[i] = S_y /\ ExtractionArgs[i + 1] = outputs[k]

\* the arguments that apply to the output of target k alone: those after
\* the previous output path (after the input file for the first target)
\* and before the target's "-y"
SegmentOf(k) ==
    LET lo == IF k = 1 THEN 1 ELSE OutputAt(k - 1) + 2
    IN Slice(ExtractionArgs, lo, OutputAt(k) - 1)

HasPair(seg, a, b) == \E i \in 1..(Len(seg) - 1) : seg[i] = a /\ seg[i + 1] = b

\* C20: in the extraction command every target has its "-y {output_path}",
\* and the arguments that apply to that output hold the target's
\* "-map 0:s:{index}?" and its "-c:s:{index} copy" and no other -map, so
\* that the output receives its own stream, copied.
C20_EachOutputItsStreamCopied ==
    Len(cmds) > 0
    => \A k \in 1..Len(sub_streams) :
         /\ \E i \in 1..(Len(ExtractionArgs) - 1) :
               ExtractionArgs[i] = S_y /\ ExtractionArgs[i + 1] = outputs[k]
         /\ HasPair(SegmentOf(k), S_map, stream_specifier(sub_streams[k].stream_id))
         /\ Cardinality({i \in 1..Len(SegmentOf(k)) : SegmentOf(k)[i] = S_map}) = 1
         /\ HasPair(SegmentOf(k),
                    stream_encoding(sub_streams[k].stream_id)[1],
                    stream_encoding(sub_streams[k].stream_id)[2])

\* C21: when the oracle, called by the worker hook, reports
\* already-extracted, the hook returns without side effects: it starts no
\* command, no file on disk and not the media file is written or replaced,
\* and exec_command is None, so the host has nothing to run.
C21_AlreadyDoneNoSideEffects ==
    [][ (WorkerStart /\ probe_ok /\ Oracle)
        => /\ cmds' = <<>>
           /\ pc' = "idle"
           /\ disk' = disk
           /\ media' = media
           /\ data'.exec_command = "none"
           /\ ~HostPending' ]_vars

\* C21 witness: a worker run on a file with a truthy sidecar record and
\* target streams returned "already done" although extract_regardless is
\* set.
C21_Witness ==
    /\ result = "already_done"
    /\ record = "truthy"
    /\ extract_regardless
    /\ has_target_subtitles(variant, streams)
    /\ cmds = <<>>
    /\ host_cmds = <<>>
    /\ data.exec_command = "none"

\* how often the extraction command of the current worker invocation has
\* been run: by the hook itself and by the host from the returned
\* exec_command
ExtractionRuns ==
    Cardinality({i \in 1..Len(cmds) : cmds[i].kind = "extract"}) + Len(host_cmds)

MetadataRuns == Cardinality({i \in 1..Len(cmds) : cmds[i].kind = "metadata"})

\* C22: in one worker invocation the extraction command is run at most
\* once and the metadata command at most once, neither is run again after
\* a failure, and the metadata command is started only after the
\* extraction command has exited.
C22_EachCommandOnce ==
    /\ ExtractionRuns <= 1
    /\ MetadataRuns <= 1
    /\ MetadataStarted => (cmds[1].kind = "extract" /\ extract_exit.rc >= 0)

\* C23: in the ASS variant no command is ever run for a file whose
\* extension is non-empty and not "mkv" (compared in lower case), whatever
\* the settings, the sidecar record, the tag, the artifacts and the probe
\* result are: neither the hook nor the host runs one.
C23_AssNonMkvNeverExtracted ==
    (variant = "ass" /\ FileExtension \notin {<<>>, S_mkv})
    => /\ cmds = <<>>
       /\ host_cmds = <<>>
       /\ pc = "idle"
       /\ data.exec_command # "ffmpeg"
       /\ media = media0

\* C23 witness: with extract_regardless set, a worker run on an untagged
\* .mp4 file with an ass stream and no sidecar record returned without a
\* command.
C23_Witness ==
    /\ variant = "ass"
    /\ path = P_mp4
    /\ extract_regardless
    /\ record = "nofile"
    /\ probe_ok
    /\ has_target_subtitles(variant, streams)
    /\ disk = {}
    /\ result = "already_done"
    /\ cmds = <<>>

\* the non-empty stretches of raw between commas, as pairs <<from, to>>
RawSegments(raw) ==
    { seg \in (1..Len(raw)) \X (1..Len(raw)) :
        /\ seg[1] <= seg[2]
        /\ \A i \in seg[1]..seg[2] : raw[i] # ","
        /\ seg[1] = 1 \/ raw[seg[1] - 1] = ","
        /\ seg[2] = Len(raw) \/ raw[seg[2] + 1] = "," }

\* the k-th such stretch from the left
RawSegmentAt(raw, k) ==
    CHOOSE seg \in RawSegments(raw) :
        Cardinality({other \in RawSegments(raw) : other[1] < seg[1]}) = k - 1

\* the reference parse: every whitespace character becomes "-", letters
\* are lower-cased, the string is cut at the commas, empty tokens are
\* dropped and each token is trimmed
ReferenceParse(raw) ==
    [k \in 1..Cardinality(RawSegments(raw)) |->
        Strip([i \in 1..(RawSegmentAt(raw, k)[2] - RawSegmentAt(raw, k)[1] + 1) |->
                  LET c == raw[RawSegmentAt(raw, k)[1] + i - 1]
                  IN IF IsSpace(c) THEN "-" ELSE LowerChar(c)])]

\* language tags of a stream to test the filter with
ProbeTags == { <<>>, <<"e">>, <<"F">>, <<"-">>, <<"e", "-", "f">>, <<"E", " ", "F">> }

\* C24: the list returned by _get_language_list is the reference parse of
\* the setting; no returned token holds a whitespace character; with a
\* non-empty list a target stream is accepted exactly when its lower-cased
\* language tag equals one of the tokens.
C24_ParseEqualsReference ==
    languages.calls >= 1
    => /\ languages.first = ReferenceParse(languages_to_extract)
       /\ \A k \in 1..Len(languages.first) :
            \A i \in 1..Len(languages.first[k]) : ~IsSpace(languages.first[k][i])
       /\ languages.first # <<>>
          => \A tag \in ProbeTags :
               test_stream_needs_processing(
                   variant, languages_to_extract,
                   Stream(S_subtitle, KindExt(variant), tag))
               <=> Lower(tag) \in Range(languages.first)

\* C24 witness: the setting "e F" with a blank was parsed to the single
\* token "e-f".
C24_Witness ==
    /\ languages.calls = 1
    /\ languages_to_extract = <<"e", " ", "F">>
    /\ languages.first = << <<"e", "-", "f">> >>

\* the subtitle streams of the file that test_stream_needs_processing accepts
AcceptedPositions ==
    { i \in 1..Len(streams) :
        /\ Lower(streams[i].codec_type) = S_subtitle
        /\ test_stream_needs_processing(variant, languages_to_extract, streams[i]) }

\* C25: for every stream and filter, a stream accepted by
\* test_stream_needs_processing makes custom_stream_mapping append exactly
\* one entry to sub_streams (the language-skip branch, which appends
\* nothing and returns empty lists, is not taken); after a selection pass
\* sub_streams has one entry per accepted stream.
C25_PredicatesAgree ==
    /\ \A i \in AcceptedPositions :
          /\ Len(custom_stream_mapping(languages_to_extract, streams[i],
                                       SubtitleIndex(i))) = 1
          /\ custom_stream_mapping(languages_to_extract, streams[i],
                                   SubtitleIndex(i))[1].stream_mapping
               = <<S_map, stream_specifier(SubtitleIndex(i))>>
    /\ SelectionDone => Len(sub_streams) = Cardinality(AcceptedPositions)

\* C25 witness: with a non-empty filter a selection pass accepted the
\* stream tagged "F" and recorded it once, with the tag in lower case.
C25_Witness ==
    /\ _get_language_list(languages_to_extract) # <<>>
    /\ Cardinality(AcceptedPositions) = 1
    /\ Len(sub_streams) = 1
    /\ sub_streams[1].subtitle_tag = <<"f">>
    /\ pc = "extract"

\* C26: the output path of the metadata command is never its input path,
\* also for input paths without ".mkv": the command does not write over
\* the file it reads.
C26_TempOutputIsNotInput ==
    \A i \in 1..Len(cmds) :
        cmds[i].kind = "metadata" => cmds[i].output[1] # cmds[i].input

\* C27: every output file name the worker builds for a media file is
\* matched by the oracle's artifact pattern of the same file, also when
\* the base path holds pattern metacharacters: a written artifact alone on
\* disk is found by the oracle's glob.
C27_OutputsMatchPattern ==
    \A k \in 1..Len(outputs) :
        outputs[k] \in glob({outputs[k]}, ArtifactPattern(variant, path))
====
